---- MODULE Spec2Model ----
(***************************************************************************)
(* Model of py/sdk/base/base_client.py: the request authorizer of          *)
(* BaseClient (_get_auth_header, _ensure_authenticated,                    *)
(* _prepare_request_args) and the two sync adapters (sync_wrapper,         *)
(* sync_generator_wrapper).                                                *)
(*                                                                         *)
(* Three specifications share the variables:                               *)
(*   Spec        the authorizer, with credential changes interleaved       *)
(*   SpecStream  one wrapped stream driven by next() calls                 *)
(*   SpecCall    one wrapped call driven by the event loop                 *)
(***************************************************************************)
EXTENDS Integers, Sequences, FiniteSets, TLC

VARIABLES
    access_token,   \* BaseClient.access_token : Optional[str]
    api_key,        \* BaseClient.api_key      : Optional[str]
    heap,           \* the caller's own header dicts, by object identity
    placed,         \* per caller dict: the keys written into it by headers.update
    last,           \* the most recent operation on the client and its outcome
    agen,           \* the underlying async generator: its steps, in order
    agenPos,        \* number of __anext__ calls made on agen
    gen,            \* state of the generator object returned by wrapper()
    out,            \* the values the caller has received from next(), in order
    adv,            \* outcome of the caller's most recent next()
    advances,       \* number of next() calls the caller has made
    cause,          \* why gen finished: "none", "exhausted" or "error"
    agenCalled,     \* whether async_gen_func has been called
    loopAvail,      \* whether asyncio.get_event_loop() finds an event loop
    coro,           \* the wrapped coroutine: its suspensions and final outcome
    remaining,      \* suspensions the running coroutine still has ahead
    pc,             \* where the synchronous caller of sync_wrapper's wrapper is
    ret,            \* what the wrapper handed back to its caller
    callerSteps     \* steps of caller code run after the wrapper was called

authVars == <<access_token, api_key, heap, placed, last>>
streamVars == <<agen, agenPos, gen, out, adv, advances, cause, agenCalled>>
callVars == <<coro, remaining, pc, ret, callerSteps>>
vars == <<authVars, streamVars, callVars, loopAvail>>

----------------------------------------------------------------------------
(* Bounds of the model *)

NumDicts == 1       \* header dicts the caller owns and may pass again
MaxLen == 3         \* steps of the underlying async sequence before exhaustion
MaxAdvances == 5    \* next() calls the caller makes on one wrapped stream
MaxSuspend == 3     \* suspensions inside the wrapped coroutine
MaxCallerSteps == 2 \* caller steps counted after a call

----------------------------------------------------------------------------
(* Python values *)

\* Optional[str]: None is <<>>, the string s is <<s>>
None == <<>>
Some(s) == <<s>>
OptStr == {None, Some(""), Some("tok")}
OptKey == {None, Some(""), Some("key")}

\* bool(x) of an Optional[str]: None and "" are false
Truthy(v) == v # None /\ v[1] # ""

\* dict[str, str]
EmptyMap == [k \in {} |-> ""]
Map1(k, v) == [x \in {k} |-> v]

\* dict.update(other): entries of other are written last
DictUpdate(d, other) ==
    [k \in DOMAIN d \cup DOMAIN other |-> IF k \in DOMAIN other THEN other[k] ELSE d[k]]

\* values held in keyword arguments: a tagged Python object
PyNone == [t |-> "None", v |-> EmptyMap]
PyDict(m) == [t |-> "dict", v |-> m]
PyEmptyList == [t |-> "list", v |-> EmptyMap]
PyRef(id) == [t |-> "ref", v |-> id]    \* a reference to a caller-owned dict

\* x == {} in Python: only an empty dict equals {}
EqEmptyDict(x) == x.t = "dict" /\ DOMAIN x.v = {}
\* x is None
IsNone(x) == x.t = "None"
\* bool(x)
PyTruthy(x) == x.t \notin {"None", "list"} /\ DOMAIN x.v # {}

ParamValues == {PyNone, PyDict(EmptyMap), PyDict(Map1("q", "x")), PyEmptyList}
JsonValues == {PyDict(Map1("a", "b"))}

\* outcomes of a call
Raise(status, message) ==
    [kind |-> "raise", status |-> status, message |-> message, value |-> EmptyMap]
Return(value) ==
    [kind |-> "return", status |-> 0, message |-> "", value |-> value]

----------------------------------------------------------------------------
(* BaseClient: the request authorizer *)

ConflictStatus == 400
ConflictMessage == "Cannot have both access token and api key."
UnauthStatus == 401
UnauthMessage == "Not authenticated. Please login first."
ExemptEndpoints == {"register", "login", "verify_email"}

\* endpoints callers pass; "Login" differs from "login" only by case
Endpoints == ExemptEndpoints \cup {"search", "Login"}

\* _get_auth_header without the conflict check: the token silently wins
GetAuthHeaderTokenWins(at, ak) ==
    IF Truthy(at)
    THEN Return(Map1("Authorization", "Bearer " \o at[1]))
    ELSE IF Truthy(ak)
         THEN Return(Map1("x-api-key", ak[1]))
         ELSE Return(EmptyMap)

\* _get_auth_header sending the api key under the Authorization header
GetAuthHeaderKeyAsBearer(at, ak) ==
    IF Truthy(at) /\ Truthy(ak)
    THEN Raise(400, "Cannot have both access token and api key.")
    ELSE IF Truthy(at)
         THEN Return(Map1("Authorization", "Bearer " \o at[1]))
         ELSE IF Truthy(ak)
              THEN Return(Map1("Authorization", "Bearer " \o ak[1]))
              ELSE Return(EmptyMap)

\* BaseClient._get_auth_header
GetAuthHeader(at, ak) ==
    IF Truthy(at) /\ Truthy(ak)
    THEN Raise(ConflictStatus, ConflictMessage)
    ELSE IF Truthy(at)
         THEN Return(Map1("Authorization", "Bearer " \o at[1]))
         ELSE IF Truthy(ak)
              THEN Return(Map1("x-api-key", ak[1]))
              ELSE Return(EmptyMap)

\* _ensure_authenticated that also accepts an api key
EnsureAuthenticatedOrKey(at, ak) ==
    IF ~Truthy(at) /\ ~Truthy(ak)
    THEN Raise(401, "Not authenticated. Please login first.")
    ELSE Return(EmptyMap)

\* BaseClient._ensure_authenticated: returns None unless it raises
EnsureAuthenticated(at, ak) ==
    IF ~Truthy(at)
    THEN Raise(UnauthStatus, UnauthMessage)
    ELSE Return(EmptyMap)

\* str.lower() on the endpoints of the model
Lower(endpoint) == IF endpoint = "Login" THEN "login" ELSE endpoint

\* the exemption test made case-insensitively
ShouldAttachAnyCase(at, ak, endpoint) ==
    (Truthy(at) \/ Truthy(ak)) /\ Lower(endpoint) \notin ExemptEndpoints

\* the condition guarding headers.update in _prepare_request_args
ShouldAttach(at, ak, endpoint) ==
    (Truthy(at) \/ Truthy(ak)) /\ endpoint \notin ExemptEndpoints

\* "params" popped whenever its value is falsy (if not kwargs.get("params"))
ParamsPoppedIfFalsy(kwargs) ==
    LET p == IF "params" \in DOMAIN kwargs THEN kwargs["params"] ELSE PyNone
    IN  ~PyTruthy(p)

\* the condition under which _prepare_request_args pops "params"
ParamsPopped(kwargs) ==
    LET p == IF "params" \in DOMAIN kwargs THEN kwargs["params"] ELSE PyNone
    IN  EqEmptyDict(p) \/ IsNone(p)

\* kwargs as left after kwargs.pop("headers", {}) and the conditional
\* kwargs.pop("params", None)
RestKwargs(kwargs) ==
    LET keep == (DOMAIN kwargs \ {"headers"})
                    \ (IF ParamsPopped(kwargs) THEN {"params"} ELSE {})
    IN  [k \in keep |-> kwargs[k]]

\* headers.update(self._get_auth_header()) on the dict taken from kwargs
MergeAuth(headers, auth) == DictUpdate(headers, auth)

\* {"headers": headers, **kwargs}
Bundle(headers, rest) ==
    [k \in {"headers"} \cup DOMAIN rest |->
        IF k = "headers" THEN PyDict(headers) ELSE rest[k]]

\* the keyword arguments callers pass: headers and params are each absent
\* or present, headers being one of the caller's own dicts; json stands for
\* the other transport arguments, which no branch of the code looks at
DictIds == 1..NumDicts
OptArg(name, values) == {EmptyMap} \cup {Map1(name, x) : x \in values}
Join(f, g) == [k \in DOMAIN f \cup DOMAIN g |-> IF k \in DOMAIN f THEN f[k] ELSE g[k]]
KwargsSet ==
    {Join(h, Join(p, j)) :
        h \in OptArg("headers", {PyRef(i) : i \in DictIds}),
        p \in OptArg("params", ParamValues),
        j \in {Map1("json", x) : x \in JsonValues}}

\* header dicts a caller starts with
CallerHeaders ==
    {EmptyMap, [k \in {"Authorization", "Accept"} |->
                    IF k = "Accept" THEN "json" ELSE "custom"]}

NoOp == [op |-> "none"]

\* BaseClient.__init__: no token; api_key is whatever R2R_API_KEY holds
AuthInit ==
    /\ access_token = None
    /\ api_key \in OptKey
    /\ heap \in [DictIds -> CallerHeaders]
    /\ placed = [i \in DictIds |-> {}]
    /\ last = NoOp

\* the login / logout flows assign self.access_token
SetAccessToken(v) ==
    /\ access_token' = v
    /\ last' = [op |-> "set_access_token"]
    /\ UNCHANGED <<api_key, heap, placed, streamVars, callVars, loopAvail>>

\* self.api_key is assigned by the caller
SetApiKey(v) ==
    /\ api_key' = v
    /\ last' = [op |-> "set_api_key"]
    /\ UNCHANGED <<access_token, heap, placed, streamVars, callVars, loopAvail>>

\* a call of _get_auth_header
CallGetAuthHeader ==
    /\ last' = [op |-> "get_auth_header",
                result |-> GetAuthHeader(access_token, api_key)]
    /\ UNCHANGED <<access_token, api_key, heap, placed>>
    /\ UNCHANGED <<streamVars, callVars, loopAvail>>

\* a call of _ensure_authenticated
CallEnsureAuthenticated ==
    /\ last' = [op |-> "ensure_authenticated",
                result |-> EnsureAuthenticated(access_token, api_key)]
    /\ UNCHANGED <<access_token, api_key, heap, placed>>
    /\ UNCHANGED <<streamVars, callVars, loopAvail>>

\* a call of _prepare_request_args(endpoint, **kwargs)
CallPrepareRequestArgs(endpoint, kwargs) ==
    LET given == "headers" \in DOMAIN kwargs
        ref == IF given THEN kwargs["headers"].v ELSE 0
        headers == IF given THEN heap[ref] ELSE EmptyMap
        attach == ShouldAttach(access_token, api_key, endpoint)
        auth == GetAuthHeader(access_token, api_key)
        call == [op |-> "prepare_request_args", endpoint |-> endpoint,
                 kwargs |-> kwargs, before |-> headers, ref |-> ref]
    IN  /\ UNCHANGED <<streamVars, callVars, loopAvail>>
        /\ IF attach /\ auth.kind = "raise"
           THEN /\ last' = Join(call, [result |-> auth, written |-> {}])
                /\ UNCHANGED <<access_token, api_key, heap, placed>>
           ELSE LET merged == IF attach THEN MergeAuth(headers, auth.value)
                                        ELSE headers
                    wrote == IF attach THEN DOMAIN auth.value ELSE {}
                    written == IF given THEN placed[ref] \cup wrote ELSE wrote
                IN  /\ heap' = IF given THEN [heap EXCEPT ![ref] = merged]
                                        ELSE heap
                    /\ placed' = IF given THEN [placed EXCEPT ![ref] = written]
                                          ELSE placed
                    /\ last' = Join(call,
                                    [result |-> Return(Bundle(merged,
                                                              RestKwargs(kwargs))),
                                     written |-> written])
                    /\ UNCHANGED <<access_token, api_key>>

----------------------------------------------------------------------------
(* sync_generator_wrapper *)

\* one step of the underlying async generator: a value or an error raised
Value(x) == [k |-> "value", x |-> x]
Error(x) == [k |-> "error", x |-> x]
Items == {Value("v1"), Value("v2"), Error("E")}

RECURSIVE SeqsUpTo(_)
SeqsUpTo(n) ==
    IF n = 0 THEN {<<>>}
    ELSE LET shorter == SeqsUpTo(n - 1)
         IN  shorter \cup {Append(q, i) : q \in {r \in shorter : Len(r) = n - 1},
                                          i \in Items}

\* what the caller of next() gets
Yielded(x) == [kind |-> "yield", x |-> x]
Raised(x) == [kind |-> "raise", x |-> x]
StopIteration == [kind |-> "stop", x |-> ""]
NotAdvanced == [kind |-> "none", x |-> ""]

\* the exception a step's error reaches the caller as: nothing catches or
\* wraps it between __anext__ and the caller
Propagate(e) == e

\* exhaustion without the suppress: StopAsyncIteration leaves the generator
OnExhaustedUnsuppressed == Raised("StopAsyncIteration")

\* what contextlib.suppress(StopAsyncIteration) turns exhaustion into:
\* the generator body ends and the caller's next() gets StopIteration
OnExhausted == StopIteration

\* a wrapper that catches a step's error, hands it over and stays suspended
AfterErrorResumable == "suspended"

\* the state of the generator object after an exception left its body
AfterError == "closed"

StreamIdle ==
    /\ agen = <<>>
    /\ agenPos = 0
    /\ gen = "created"
    /\ out = <<>>
    /\ adv = NotAdvanced
    /\ advances = 0
    /\ cause = "none"
    /\ agenCalled = FALSE

\* wrapper(*args, **kwargs) was called: a generator object exists, none of
\* its body has run
StreamInit ==
    /\ agen \in SeqsUpTo(MaxLen)
    /\ agenPos = 0
    /\ gen = "created"
    /\ out = <<>>
    /\ adv = NotAdvanced
    /\ advances = 0
    /\ cause = "none"
    /\ agenCalled = FALSE

\* a wrapper object that re-enters its loop when advanced after the end
AdvanceClosedReruns ==
    /\ gen = "closed"
    /\ advances < MaxAdvances
    /\ advances' = advances + 1
    /\ agenPos' = agenPos + 1
    /\ adv' = StopIteration
    /\ UNCHANGED <<agen, gen, out, cause, agenCalled>>
    /\ UNCHANGED <<authVars, callVars, loopAvail>>

\* next() on a generator that has finished: no body code runs
AdvanceClosed ==
    /\ gen = "closed"
    /\ advances < MaxAdvances
    /\ advances' = advances + 1
    /\ adv' = StopIteration
    /\ UNCHANGED <<agen, agenPos, gen, out, cause, agenCalled>>
    /\ UNCHANGED <<authVars, callVars, loopAvail>>

\* first next() where asyncio.get_event_loop() raises
AdvanceNoLoop ==
    /\ gen = "created"
    /\ ~loopAvail
    /\ advances < MaxAdvances
    /\ advances' = advances + 1
    /\ agenCalled' = TRUE
    /\ adv' = Raised("RuntimeError")
    /\ gen' = "closed"
    /\ cause' = "error"
    /\ UNCHANGED <<agen, agenPos, out>>
    /\ UNCHANGED <<authVars, callVars, loopAvail>>

\* next() that runs one __anext__ to completion
AdvanceStep ==
    /\ gen \in {"created", "suspended"}
    /\ gen = "created" => loopAvail
    /\ advances < MaxAdvances
    /\ advances' = advances + 1
    /\ agenCalled' = TRUE
    /\ agenPos' = agenPos + 1
    /\ IF agenPos < Len(agen)
       THEN LET step == agen[agenPos + 1]
            IN  IF step.k = "value"
                THEN /\ adv' = Yielded(step.x)
                     /\ out' = Append(out, step.x)
                     /\ gen' = "suspended"
                     /\ cause' = cause
                ELSE /\ adv' = Raised(Propagate(step.x))
                     /\ out' = out
                     /\ gen' = AfterError
                     /\ cause' = "error"
       ELSE /\ adv' = OnExhausted
            /\ out' = out
            /\ gen' = "closed"
            /\ cause' = "exhausted"
    /\ UNCHANGED <<agen, authVars, callVars, loopAvail>>

StreamNext ==
    \/ AdvanceClosed
    \/ AdvanceNoLoop
    \/ AdvanceStep

----------------------------------------------------------------------------
(* sync_wrapper *)

Outcomes == {Return("r1"), Return("r2"), Raise(0, "E1"), Raise(0, "E2")}
NoLoopError == Raise(0, "RuntimeError")
NotReturned == [kind |-> "none", status |-> 0, message |-> "", value |-> ""]

\* a loop that stops one suspension short of completion
FutureDoneEarly(left) == left <= 1

\* loop.run_until_complete keeps running the loop until the future is done
FutureDone(left) == left = 0

\* run_until_complete returns future.result(): the value, or the exception
\* the coroutine raised, re-raised as it is
FutureResult(outcome) == outcome

CallIdle ==
    /\ coro = [suspends |-> 0, outcome |-> Return("r1")]
    /\ remaining = 0
    /\ pc = "idle"
    /\ ret = NotReturned
    /\ callerSteps = 0

CallInit ==
    /\ coro \in [suspends : 0..MaxSuspend, outcome : Outcomes]
    /\ remaining = 0
    /\ pc = "caller"
    /\ ret = NotReturned
    /\ callerSteps = 0

\* wrapper(*args, **kwargs) is entered: get_event_loop, then the coroutine
\* object is made and handed to run_until_complete
EnterWrapper ==
    /\ pc = "caller"
    /\ IF loopAvail
       THEN /\ pc' = "running"
            /\ remaining' = coro.suspends
            /\ ret' = ret
       ELSE /\ pc' = "returned"
            /\ remaining' = remaining
            /\ ret' = NoLoopError
    /\ UNCHANGED <<coro, callerSteps>>
    /\ UNCHANGED <<authVars, streamVars, loopAvail>>

\* the loop resumes the coroutine up to its next suspension
LoopRun ==
    /\ pc = "running"
    /\ ~FutureDone(remaining)
    /\ remaining' = remaining - 1
    /\ UNCHANGED <<coro, pc, ret, callerSteps>>
    /\ UNCHANGED <<authVars, streamVars, loopAvail>>

\* the future is done: run_until_complete returns or raises in the caller
WrapperReturn ==
    /\ pc = "running"
    /\ FutureDone(remaining)
    /\ pc' = "returned"
    /\ ret' = FutureResult(coro.outcome)
    /\ UNCHANGED <<coro, remaining, callerSteps>>
    /\ UNCHANGED <<authVars, streamVars, loopAvail>>

\* code of the synchronous caller after the call
CallerStep ==
    /\ pc = "returned"
    /\ callerSteps < MaxCallerSteps
    /\ callerSteps' = callerSteps + 1
    /\ UNCHANGED <<coro, remaining, pc, ret>>
    /\ UNCHANGED <<authVars, streamVars, loopAvail>>

CallNext ==
    \/ EnterWrapper
    \/ LoopRun
    \/ WrapperReturn
    \/ CallerStep

----------------------------------------------------------------------------
(* Specifications *)

Init ==
    /\ AuthInit
    /\ StreamIdle
    /\ CallIdle
    /\ loopAvail = TRUE

Next ==
    \/ \E v \in OptStr : SetAccessToken(v)
    \/ \E v \in OptKey : SetApiKey(v)
    \/ CallGetAuthHeader
    \/ CallEnsureAuthenticated
    \/ \E e \in Endpoints, kw \in KwargsSet : CallPrepareRequestArgs(e, kw)

Spec == Init /\ [][Next]_vars

InitStream ==
    /\ access_token = None /\ api_key = None
    /\ heap = [i \in DictIds |-> EmptyMap]
    /\ placed = [i \in DictIds |-> {}]
    /\ last = NoOp
    /\ StreamInit
    /\ CallIdle
    /\ loopAvail \in BOOLEAN

SpecStream == InitStream /\ [][StreamNext]_vars

InitCall ==
    /\ access_token = None /\ api_key = None
    /\ heap = [i \in DictIds |-> EmptyMap]
    /\ placed = [i \in DictIds |-> {}]
    /\ last = NoOp
    /\ StreamIdle
    /\ CallInit
    /\ loopAvail \in BOOLEAN

SpecCall == InitCall /\ [][CallNext]_vars

----------------------------------------------------------------------------
(* Properties of the authorizer, checked under Spec.                       *)
(* A credential is "set" when it holds a non-empty string; last describes  *)
(* the most recent operation, so access_token and api_key are still the    *)
(* credentials that operation read.                                        *)

IsSet(v) == v # None /\ v # Some("")
AfterGetAuthHeader == last.op = "get_auth_header"
AfterEnsure == last.op = "ensure_authenticated"
AfterPrepare == last.op = "prepare_request_args"

\* the decision table of buildAuthHeader for credentials that do not conflict
TableHeader(at, ak) ==
    IF IsSet(at) THEN [k \in {"Authorization"} |-> "Bearer " \o at[1]]
    ELSE IF IsSet(ak) THEN [k \in {"x-api-key"} |-> ak[1]]
    ELSE [k \in {} |-> ""]

\* h overlaid with a, the entries of a winning on a key collision
Overlaid(h, a) ==
    [k \in DOMAIN h \cup DOMAIN a |-> IF k \in DOMAIN a THEN a[k] ELSE h[k]]

\* C1: whenever both accessToken and apiKey are set, _get_auth_header raises
\* the conflict error (400, "Cannot have both access token and api key.")
\* and returns no header mapping.
C1_ConflictRaises ==
    (AfterGetAuthHeader /\ IsSet(access_token) /\ IsSet(api_key)) =>
        /\ last.result.kind = "raise"
        /\ last.result.status = 400
        /\ last.result.message = "Cannot have both access token and api key."
        /\ last.result.value = EmptyMap

C1_Witness ==
    /\ AfterGetAuthHeader
    /\ access_token = Some("tok")
    /\ api_key = Some("key")
    /\ last.result.kind = "raise"

\* C2: whenever accessToken and apiKey are not both set, _get_auth_header
\* returns, without error, exactly the mapping of the decision table, and
\* that mapping has at most one entry.
C2_DecisionTable ==
    (AfterGetAuthHeader /\ ~(IsSet(access_token) /\ IsSet(api_key))) =>
        /\ last.result.kind = "return"
        /\ last.result.value = TableHeader(access_token, api_key)
        /\ Cardinality(DOMAIN last.result.value) <= 1

\* an empty token is not a set credential: only the api key is set
C2_Witness ==
    /\ AfterGetAuthHeader
    /\ access_token = Some("")
    /\ api_key = Some("key")
    /\ last.result = Return(Map1("x-api-key", "key"))

\* C3 as stated: _ensure_authenticated raises if and only if accessToken is
\* absent (None), the empty string counting as a present value.
C3_FailsIffAbsent ==
    AfterEnsure => (last.result.kind = "raise" <=> access_token = None)

\* C3 amended: _ensure_authenticated raises the Unauthenticated error (401,
\* "Not authenticated. Please login first.") if and only if accessToken is
\* absent or the empty string, whatever apiKey holds; otherwise it returns.
C3_FailsIffNotSet ==
    AfterEnsure =>
        IF IsSet(access_token)
        THEN last.result.kind = "return"
        ELSE /\ last.result.kind = "raise"
             /\ last.result.status = 401
             /\ last.result.message = "Not authenticated. Please login first."

C3_Witness ==
    /\ AfterEnsure
    /\ access_token = Some("")
    /\ api_key = Some("key")
    /\ last.result.kind = "raise"

\* C4: the headers of a returned bundle are the caller's headers overlaid
\* with the auth header (auth entries winning) when a credential is set and
\* the endpoint is not exactly register, login or verify_email; in every
\* other case the call returns and the headers are exactly the caller's.
C4_Headers ==
    AfterPrepare =>
        LET attach == /\ IsSet(access_token) \/ IsSet(api_key)
                      /\ last.endpoint \notin {"register", "login", "verify_email"}
        IN  IF attach
            THEN last.result.kind = "return" =>
                    last.result.value["headers"] =
                        PyDict(Overlaid(last.before,
                                        TableHeader(access_token, api_key)))
            ELSE /\ last.result.kind = "return"
                 /\ last.result.value["headers"] = PyDict(last.before)

\* an endpoint differing from an exempt one only by case, called with a
\* token and with caller headers that already hold Authorization
C4_Witness ==
    /\ AfterPrepare
    /\ last.endpoint = "Login"
    /\ access_token = Some("tok")
    /\ "Authorization" \in DOMAIN last.before
    /\ last.before["Authorization"] = "custom"
    /\ last.result.kind = "return"
    /\ last.result.value["headers"].v["Authorization"] = "Bearer tok"

\* the exempt endpoint called with credentials that would authorize
C4_WitnessExempt ==
    /\ AfterPrepare
    /\ last.endpoint = "login"
    /\ access_token = Some("tok")
    /\ last.result.kind = "return"
    /\ "Authorization" \notin DOMAIN last.result.value["headers"].v

\* C5: a returned bundle has no params key exactly when the caller gave no
\* params, an empty mapping or None; any other params value, and every other
\* non-headers argument, is in the bundle unchanged; nothing but headers is
\* added.
C5_Params ==
    (AfterPrepare /\ last.result.kind = "return") =>
        LET kw == last.kwargs
            b == last.result.value
            dropped == \/ "params" \notin DOMAIN kw
                       \/ kw["params"] = PyDict(EmptyMap)
                       \/ kw["params"] = PyNone
        IN  /\ ("params" \notin DOMAIN b) <=> dropped
            /\ ~dropped => b["params"] = kw["params"]
            /\ \A k \in DOMAIN kw \ {"headers", "params"} :
                    k \in DOMAIN b /\ b[k] = kw[k]
            /\ "headers" \in DOMAIN b
            /\ DOMAIN b \subseteq (DOMAIN kw \cup {"headers"})

C5_Witness ==
    /\ AfterPrepare
    /\ last.endpoint = "search"
    /\ access_token = None
    /\ api_key = Some("key")
    /\ "params" \in DOMAIN last.kwargs
    /\ last.kwargs["params"] = PyDict(EmptyMap)
    /\ "json" \in DOMAIN last.kwargs
    /\ last.result.kind = "return"
    /\ DOMAIN last.result.value = {"headers", "json"}
    /\ "x-api-key" \in DOMAIN last.result.value["headers"].v

\* a falsy params value that is neither {} nor None is passed through
C5_WitnessKept ==
    /\ AfterPrepare
    /\ "params" \in DOMAIN last.kwargs
    /\ last.kwargs["params"] = PyEmptyList
    /\ last.result.kind = "return"
    /\ "params" \in DOMAIN last.result.value

\* C10: no returned bundle has headers holding both an Authorization entry
\* and an x-api-key entry written by the authorizer, also when the caller
\* passes the same headers mapping to successive calls.
C10_OneCredentialPerBundle ==
    (AfterPrepare /\ last.result.kind = "return") =>
        ~({"Authorization", "x-api-key"} \subseteq last.written)

\* C10, second sentence: a call leaves the caller's own headers mapping as
\* it was.
C10_CallerHeadersUnchanged ==
    (AfterPrepare /\ last.ref \in DictIds) => heap[last.ref] = last.before

----------------------------------------------------------------------------
(* Properties of sync_generator_wrapper, checked under SpecStream *)

Min(a, b) == IF a < b THEN a ELSE b
AllValues == \A i \in 1..Len(agen) : agen[i].k = "value"
Produced == [i \in 1..Len(agen) |-> agen[i].x]

\* C6: over an underlying sequence v1..vn that then signals exhaustion, the
\* caller receives v1..vn in order, one __anext__ step per advance (none
\* ahead, none skipped or repeated), and then a clean end with no error.
C6_OrderedOneStepPerAdvance ==
    (loopAvail /\ AllValues) =>
        LET n == Len(agen)
        IN  /\ out = SubSeq(Produced, 1, Min(advances, n))
            /\ agenPos = Min(advances, n + 1)
            /\ adv.kind # "raise"
            /\ (1 <= advances /\ advances <= n) => adv = Yielded(agen[advances].x)
            /\ advances > n => (adv = StopIteration /\ out = Produced)

C6_Witness ==
    /\ loopAvail
    /\ agen = <<Value("v1"), Value("v2"), Value("v1")>>
    /\ advances = Len(agen) + 1
    /\ out = <<"v1", "v2", "v1">>
    /\ adv = StopIteration

\* C7: nothing of the underlying operation runs before the first advance;
\* the wrapped object only moves created -> suspended -> closed; and once
\* the underlying sequence has signalled exhaustion every later advance
\* yields nothing, surfaces no error and runs no further step.
C7_ExhaustedIsTerminal ==
    /\ [](advances = 0 => (~agenCalled /\ agenPos = 0 /\ gen = "created"))
    /\ [][gen' # gen => <<gen, gen'>> \in {<<"created", "suspended">>,
                                           <<"created", "closed">>,
                                           <<"suspended", "closed">>}]_vars
    /\ [][cause = "exhausted" =>
            /\ cause' = "exhausted"
            /\ gen' = "closed"
            /\ out' = out
            /\ agenPos' = agenPos
            /\ agenCalled' = agenCalled
            /\ advances' # advances => adv' = StopIteration]_vars

C7_Witness ==
    /\ cause = "exhausted"
    /\ Len(agen) = 2
    /\ Len(out) = 2
    /\ advances = Len(agen) + 3
    /\ agenPos = Len(agen) + 1
    /\ adv = StopIteration

\* C9 as stated: after the error of a step taken while the stream was
\* Active (suspended at a yield) the stream stays Active, and no later
\* advance reports exhaustion in place of running a further step.
C9_StaysActiveAfterError ==
    (loopAvail /\ cause = "error" /\ agenPos > 1) =>
        (gen = "suspended" /\ adv # StopIteration)

\* C9 amended: a step's error reaches the caller unchanged at that advance,
\* and it finishes the wrapped generator: every later advance ends the
\* iteration, with no element, no error and no further step.
C9_ErrorSurfacesAndCloses ==
    /\ []((loopAvail /\ adv.kind = "raise") =>
            /\ agen[agenPos].k = "error"
            /\ adv.x = agen[agenPos].x
            /\ agenPos = advances
            /\ gen = "closed")
    /\ [][(loopAvail /\ cause = "error") =>
            /\ gen' = "closed"
            /\ out' = out
            /\ agenPos' = agenPos
            /\ advances' # advances => adv' = StopIteration]_vars

C9_Witness ==
    /\ loopAvail
    /\ agen = <<Value("v1"), Error("E"), Value("v2")>>
    /\ cause = "error"
    /\ out = <<"v1">>
    /\ agenPos = 2
    /\ advances = 3
    /\ adv = StopIteration

----------------------------------------------------------------------------
(* Properties of sync_wrapper, checked under SpecCall *)

\* C8: the wrapper hands control back only when the coroutine has run
\* through all its suspensions; the caller then holds the coroutine's own
\* result or the very error it raised; no caller code runs in between.
C8_ReturnsAfterCompletion ==
    /\ (loopAvail /\ pc = "returned") => (remaining = 0 /\ ret = coro.outcome)
    /\ pc = "running" => (ret = NotReturned /\ callerSteps = 0)
    /\ callerSteps > 0 => pc = "returned"

C8_Witness ==
    /\ loopAvail
    /\ pc = "returned"
    /\ coro.suspends = MaxSuspend
    /\ coro.outcome = Raise(0, "E2")
    /\ ret = Raise(0, "E2")
    /\ callerSteps > 0

====
